---- MODULE Spec2Model ----
(***************************************************************************)
(* The student-record store of Testy04/Project-Group2.                     *)
(*                                                                         *)
(* Two server files are modelled: src/index.js, and the indexNumber        *)
(* variant of src/unnamed/part_000 (lines 67-292).  The variable prog      *)
(* says which of the two is the running process.                           *)
(*                                                                         *)
(* JavaScript values are records [t, n, s]:                                *)
(*   t  the kind of value: "undefined", "null", "number", "nan",           *)
(*      "string", "array";                                                 *)
(*   n  for a number, its value in hundredths (3.95 is 395, 101 is 10100); *)
(*   s  for a string, its characters as a sequence of one-character        *)
(*      strings; for an array, the characters of its single string         *)
(*      element (the arrays of the model are one-element arrays).          *)
(* NaN is the kind "nan", whose typeof is "number".                        *)
(***************************************************************************)
EXTENDS Integers, Sequences, FiniteSets, TLC

VARIABLES prog, students, nextId, req, res, steps

vars == <<prog, students, nextId, req, res, steps>>

(***************************************************************************)
(* Bounds of the model.                                                    *)
(***************************************************************************)
MaxSteps == 2

(***************************************************************************)
(* JavaScript values.                                                      *)
(***************************************************************************)
Undef == [t |-> "undefined", n |-> 0, s |-> <<>>]
Null == [t |-> "null", n |-> 0, s |-> <<>>]
NaN == [t |-> "nan", n |-> 0, s |-> <<>>]
Num(h) == [t |-> "number", n |-> h, s |-> <<>>]
Whole(i) == Num(i * 100)
Str(cs) == [t |-> "string", n |-> 0, s |-> cs]
Arr(cs) == [t |-> "array", n |-> 0, s |-> cs]

\* typeof v
TypeOf(v) ==
    CASE v.t = "nan" -> "number"
      [] v.t = "null" -> "object"
      [] v.t = "array" -> "object"
      [] OTHER -> v.t

\* a === b.  NaN equals nothing; an array is an object, and the two sides of
\* every comparison of the handlers come from different JSON parses (a
\* stored value and a request value), so they are never the same object.
StrictEq(a, b) ==
    CASE a.t # b.t -> FALSE
      [] a.t = "number" -> a.n = b.n
      [] a.t = "string" -> a.s = b.s
      [] a.t \in {"undefined", "null"} -> TRUE
      [] OTHER -> FALSE

\* !!v
Truthy(v) ==
    CASE v.t = "number" -> v.n # 0
      [] v.t = "string" -> v.s # <<>>
      [] v.t = "array" -> TRUE
      [] OTHER -> FALSE

\* obj[k], undefined when obj has no own property k
Prop(obj, k) == IF k \in DOMAIN obj THEN obj[k] ELSE Undef

(***************************************************************************)
(* Characters and strings.                                                 *)
(***************************************************************************)
Digits == <<"0", "1", "2", "3", "4", "5", "6", "7", "8", "9">>

IsDigit(c) == \E i \in 1..10 : Digits[i] = c

DigitVal(c) == (CHOOSE i \in 1..10 : Digits[i] = c) - 1

Letters ==
    {"a", "b", "c", "d", "e", "f", "g", "h", "i", "j", "k", "l", "m",
     "n", "o", "p", "q", "r", "s", "t", "u", "v", "w", "x", "y", "z",
     "A", "B", "C", "D", "E", "F", "G", "H", "I", "J", "K", "L", "M",
     "N", "O", "P", "Q", "R", "S", "T", "U", "V", "W", "X", "Y", "Z"}

IsSpace(c) == c = " "

\* String.prototype.trim
RECURSIVE TrimStart(_)
TrimStart(cs) ==
    IF cs # <<>> /\ IsSpace(Head(cs)) THEN TrimStart(Tail(cs)) ELSE cs

RECURSIVE TrimEnd(_)
TrimEnd(cs) ==
    IF cs # <<>> /\ IsSpace(cs[Len(cs)])
    THEN TrimEnd(SubSeq(cs, 1, Len(cs) - 1))
    ELSE cs

Trim(cs) == TrimEnd(TrimStart(cs))

\* the longest prefix of cs made of digits
RECURSIVE DigitPrefix(_)
DigitPrefix(cs) ==
    IF cs # <<>> /\ IsDigit(Head(cs))
    THEN <<Head(cs)>> \o DigitPrefix(Tail(cs))
    ELSE <<>>

\* the value of a sequence of digits
RECURSIVE DigitsValue(_)
DigitsValue(ds) ==
    IF ds = <<>> THEN 0
    ELSE 10 * DigitsValue(SubSeq(ds, 1, Len(ds) - 1)) + DigitVal(ds[Len(ds)])

\* the decimal digits of a natural number
RECURSIVE NatToString(_)
NatToString(k) ==
    IF k < 10 THEN <<Digits[k + 1]>>
    ELSE NatToString(k \div 10) \o <<Digits[(k % 10) + 1]>>

\* parseInt(cs, 10): leading white space, an optional sign, then the longest
\* run of digits; NaN when there is none
ParseInt(cs) ==
    LET t == TrimStart(cs)
        neg == t # <<>> /\ Head(t) = "-"
        signed == t # <<>> /\ Head(t) \in {"-", "+"}
        ds == DigitPrefix(IF signed THEN Tail(t) ELSE t)
    IN  IF ds = <<>> THEN NaN
        ELSE Whole(IF neg THEN 0 - DigitsValue(ds) ELSE DigitsValue(ds))

\* the first two digits of a fraction, in hundredths
FractionValue(fs) ==
    CASE fs = <<>> -> 0
      [] Len(fs) = 1 -> 10 * DigitVal(fs[1])
      [] OTHER -> 10 * DigitVal(fs[1]) + DigitVal(fs[2])

\* Number(string): the empty or blank string is 0; a decimal numeral
\* (optional sign, digits, optional fraction) is its value; anything else is
\* NaN.  The numerals of the model carry at most two fraction digits.
StringToNumber(cs) ==
    LET t == Trim(cs)
        neg == t # <<>> /\ Head(t) = "-"
        signed == t # <<>> /\ Head(t) \in {"-", "+"}
        u == IF signed THEN Tail(t) ELSE t
        ip == DigitPrefix(u)
        rest == SubSeq(u, Len(ip) + 1, Len(u))
        dotted == rest # <<>> /\ Head(rest) = "."
        fp == IF dotted THEN DigitPrefix(Tail(rest)) ELSE <<>>
        wellFormed ==
            /\ Len(ip) + Len(fp) > 0
            /\ IF dotted THEN Len(rest) = 1 + Len(fp) ELSE rest = <<>>
        mag == 100 * DigitsValue(ip) + FractionValue(fp)
    IN  CASE t = <<>> -> Num(0)
          [] ~wellFormed -> NaN
          [] OTHER -> Num(IF neg THEN 0 - mag ELSE mag)

\* String(number), for the numbers of the model (hundredths)
NumberToString(h) ==
    LET mag == IF h < 0 THEN 0 - h ELSE h
        ip == NatToString(mag \div 100)
        f == mag % 100
        fp == CASE f = 0 -> <<>>
                [] f % 10 = 0 -> <<".", Digits[(f \div 10) + 1]>>
                [] OTHER -> <<".", Digits[(f \div 10) + 1], Digits[(f % 10) + 1]>>
    IN  (IF h < 0 THEN <<"-">> ELSE <<>>) \o ip \o fp

\* String(v): what RegExp.prototype.test sees of its argument
ToStr(v) ==
    CASE v.t = "string" -> v.s
      [] v.t = "array" -> v.s
      [] v.t = "number" -> NumberToString(v.n)
      [] v.t = "nan" -> <<"N", "a", "N">>
      [] v.t = "null" -> <<"n", "u", "l", "l">>
      [] OTHER -> <<"u", "n", "d", "e", "f", "i", "n", "e", "d">>

\* Number(v)
ToNumber(v) ==
    CASE v.t = "number" -> v
      [] v.t = "nan" -> NaN
      [] v.t = "null" -> Num(0)
      [] v.t = "undefined" -> NaN
      [] OTHER -> StringToNumber(v.s)

\* isNaN(v), v a number
IsNaN(v) == v.t = "nan"

(***************************************************************************)
(* The seed collections.                                                   *)
(***************************************************************************)
SeedNextId == 106

SeedNextIdV == 106
\* src/index.js: let students = [...]
SeedStudents == <<
    [id |-> Whole(101),
     name |-> Str(<<"A", "l", "i", "c", "e", " ", "S", "m", "i", "t", "h">>),
     major |-> Str(<<"C", "o", "m", "p", "u", "t", "e", "r", " ", "S", "c", "i", "e", "n", "c", "e">>),
     age |-> Whole(20),
     gpa |-> Num(380),
     email |-> Str(<<"a", "l", "i", "c", "e", "@", "e", "x", "a", "m", "p", "l", "e", ".", "c", "o", "m">>),
     enrollmentDate |-> Str(<<"2", "0", "2", "3", "-", "0", "9", "-", "0", "1">>)],
    [id |-> Whole(102),
     name |-> Str(<<"B", "o", "b", " ", "J", "o", "h", "n", "s", "o", "n">>),
     major |-> Str(<<"M", "e", "c", "h", "a", "n", "i", "c", "a", "l", " ", "E", "n", "g", "i", "n", "e", "e", "r", "i", "n", "g">>),
     age |-> Whole(21),
     gpa |-> Num(320),
     email |-> Str(<<"b", "o", "b", "@", "e", "x", "a", "m", "p", "l", "e", ".", "c", "o", "m">>),
     enrollmentDate |-> Str(<<"2", "0", "2", "2", "-", "0", "9", "-", "0", "1">>)],
    [id |-> Whole(103),
     name |-> Str(<<"C", "h", "a", "r", "l", "i", "e", " ", "B", "r", "o", "w", "n">>),
     major |-> Str(<<"H", "i", "s", "t", "o", "r", "y">>),
     age |-> Whole(19),
     gpa |-> Num(290),
     email |-> Str(<<"c", "h", "a", "r", "l", "i", "e", "@", "e", "x", "a", "m", "p", "l", "e", ".", "c", "o", "m">>),
     enrollmentDate |-> Str(<<"2", "0", "2", "3", "-", "0", "1", "-", "1", "5">>)],
    [id |-> Whole(104),
     name |-> Str(<<"D", "a", "n", "a", " ", "S", "c", "u", "l", "l", "y">>),
     major |-> Str(<<"B", "i", "o", "l", "o", "g", "y">>),
     age |-> Whole(22),
     gpa |-> Num(395),
     email |-> Str(<<"d", "a", "n", "a", "@", "e", "x", "a", "m", "p", "l", "e", ".", "c", "o", "m">>),
     enrollmentDate |-> Str(<<"2", "0", "2", "1", "-", "0", "9", "-", "0", "1">>)],
    [id |-> Whole(105),
     name |-> Str(<<"E", "v", "a", "n", " ", "P", "e", "t", "e", "r", "s">>),
     major |-> Str(<<"F", "i", "n", "e", " ", "A", "r", "t", "s">>),
     age |-> Whole(20),
     gpa |-> Num(350),
     email |-> Str(<<"e", "v", "a", "n", "@", "e", "x", "a", "m", "p", "l", "e", ".", "c", "o", "m">>),
     enrollmentDate |-> Str(<<"2", "0", "2", "3", "-", "0", "9", "-", "0", "1">>)]
>>

\* src/unnamed/part_000: let students = [...], with indexNumber
SeedStudentsV == <<
    [id |-> Whole(101),
     indexNumber |-> Str(<<"U", "G", "1", "0", "0", "1">>),
     name |-> Str(<<"A", "l", "i", "c", "e", " ", "S", "m", "i", "t", "h">>),
     major |-> Str(<<"C", "o", "m", "p", "u", "t", "e", "r", " ", "S", "c", "i", "e", "n", "c", "e">>),
     age |-> Whole(20),
     gpa |-> Num(380),
     email |-> Str(<<"a", "l", "i", "c", "e", "@", "e", "x", "a", "m", "p", "l", "e", ".", "c", "o", "m">>),
     enrollmentDate |-> Str(<<"2", "0", "2", "3", "-", "0", "9", "-", "0", "1">>)],
    [id |-> Whole(102),
     indexNumber |-> Str(<<"U", "G", "1", "0", "0", "2">>),
     name |-> Str(<<"B", "o", "b", " ", "J", "o", "h", "n", "s", "o", "n">>),
     major |-> Str(<<"M", "e", "c", "h", "a", "n", "i", "c", "a", "l", " ", "E", "n", "g", "i", "n", "e", "e", "r", "i", "n", "g">>),
     age |-> Whole(21),
     gpa |-> Num(320),
     email |-> Str(<<"b", "o", "b", "@", "e", "x", "a", "m", "p", "l", "e", ".", "c", "o", "m">>),
     enrollmentDate |-> Str(<<"2", "0", "2", "2", "-", "0", "9", "-", "0", "1">>)],
    [id |-> Whole(103),
     indexNumber |-> Str(<<"U", "G", "1", "0", "0", "3">>),
     name |-> Str(<<"C", "h", "a", "r", "l", "i", "e", " ", "B", "r", "o", "w", "n">>),
     major |-> Str(<<"H", "i", "s", "t", "o", "r", "y">>),
     age |-> Whole(19),
     gpa |-> Num(290),
     email |-> Str(<<"c", "h", "a", "r", "l", "i", "e", "@", "e", "x", "a", "m", "p", "l", "e", ".", "c", "o", "m">>),
     enrollmentDate |-> Str(<<"2", "0", "2", "3", "-", "0", "1", "-", "1", "5">>)],
    [id |-> Whole(104),
     indexNumber |-> Str(<<"U", "G", "1", "0", "0", "4">>),
     name |-> Str(<<"D", "a", "n", "a", " ", "S", "c", "u", "l", "l", "y">>),
     major |-> Str(<<"B", "i", "o", "l", "o", "g", "y">>),
     age |-> Whole(22),
     gpa |-> Num(395),
     email |-> Str(<<"d", "a", "n", "a", "@", "e", "x", "a", "m", "p", "l", "e", ".", "c", "o", "m">>),
     enrollmentDate |-> Str(<<"2", "0", "2", "1", "-", "0", "9", "-", "0", "1">>)],
    [id |-> Whole(105),
     indexNumber |-> Str(<<"U", "G", "1", "0", "0", "5">>),
     name |-> Str(<<"E", "v", "a", "n", " ", "P", "e", "t", "e", "r", "s">>),
     major |-> Str(<<"F", "i", "n", "e", " ", "A", "r", "t", "s">>),
     age |-> Whole(20),
     gpa |-> Num(350),
     email |-> Str(<<"e", "v", "a", "n", "@", "e", "x", "a", "m", "p", "l", "e", ".", "c", "o", "m">>),
     enrollmentDate |-> Str(<<"2", "0", "2", "3", "-", "0", "9", "-", "0", "1">>)]
>>

(***************************************************************************)
(* src/index.js: helpers and handlers.  A handler is an operator from the  *)
(* store (coll, nid) and the request to the outcome                        *)
(* [status, students, nextId].                                             *)
(***************************************************************************)
Outcome(st, coll, nid) == [status |-> st, students |-> coll, nextId |-> nid]

\* isValidGpa without its upper bound
isValidGpaNoUpper(g) == TypeOf(g) = "number" /\ ~IsNaN(g) /\ g.n >= 0

\* isValidGpa with strict comparisons
isValidGpaStrict(g) == TypeOf(g) = "number" /\ ~IsNaN(g) /\ g.n > 0 /\ g.n < 400

\* typeof g === 'number' && g >= 0.0 && g <= 4.0
isValidGpa(g) == TypeOf(g) = "number" /\ ~IsNaN(g) /\ g.n >= 0 /\ g.n <= 400

\* students.find(s => s.id === parseInt(id, 10)): the position of the first
\* such record, 0 when there is none
findStudentById(coll, id) ==
    LET hits == {i \in 1..Len(coll) : StrictEq(coll[i].id, ParseInt(id))}
    IN  IF hits = {} THEN 0 ELSE CHOOSE i \in hits : \A j \in hits : i <= j

\* GET /studentrecords/:id
GetRecord(coll, nid, id) ==
    IF findStudentById(coll, id) = 0
    THEN Outcome(404, coll, nid)
    ELSE Outcome(200, coll, nid)

\* the record POST builds
NewStudent(nid, body, today) ==
    LET major == Prop(body, "major")
        age == Prop(body, "age")
        enrollmentDate == Prop(body, "enrollmentDate")
    IN  [id |-> Whole(nid),
         name |-> Prop(body, "name"),
         major |-> IF Truthy(major) THEN major
                   ELSE Str(<<"U", "n", "d", "e", "c", "l", "a", "r", "e", "d">>),
         age |-> IF Truthy(age) THEN age ELSE Null,
         gpa |-> ToNumber(Prop(body, "gpa")),
         email |-> Prop(body, "email"),
         enrollmentDate |-> IF Truthy(enrollmentDate) THEN enrollmentDate
                            ELSE Str(today)]

\* the validation of POST /studentrecords: 201 when the body passes
CreateStatus(body) ==
    LET name == Prop(body, "name")
        email == Prop(body, "email")
        gpa == Prop(body, "gpa")
        age == Prop(body, "age")
    IN  CASE ~Truthy(name) \/ ~Truthy(email)
               \/ gpa.t = "undefined" \/ gpa.t = "null" -> 400
          [] ~isValidGpa(gpa) -> 400
          [] age.t # "undefined" /\ age.t # "null"
               /\ (TypeOf(age) # "number" \/ (age.t = "number" /\ age.n < 1600)) -> 400
          [] OTHER -> 201

\* POST with the id allocated (nextId++) before the validation
CreateRecordEarlyId(coll, nid, body, today) ==
    IF CreateStatus(body) # 201
    THEN Outcome(CreateStatus(body), coll, nid + 1)
    ELSE Outcome(201, Append(coll, NewStudent(nid, body, today)), nid + 1)

\* POST with students.unshift(newStudent): the new record is put first
CreateRecordUnshift(coll, nid, body, today) ==
    IF CreateStatus(body) # 201
    THEN Outcome(CreateStatus(body), coll, nid)
    ELSE Outcome(201, <<NewStudent(nid, body, today)>> \o coll, nid + 1)

\* POST /studentrecords
CreateRecord(coll, nid, body, today) ==
    IF CreateStatus(body) # 201
    THEN Outcome(CreateStatus(body), coll, nid)
    ELSE Outcome(201, Append(coll, NewStudent(nid, body, today)), nid + 1)

\* the apply loop as a replacement of the record: a field the payload does
\* not name is reset
ApplyUpdatesReplace(student, updates) ==
    [key \in DOMAIN student |->
        IF key \in DOMAIN updates
        THEN IF key \in {"gpa", "age"}
             THEN ToNumber(updates[key])
             ELSE updates[key]
        ELSE IF key = "id" THEN student[key] ELSE Null]

\* the apply loop of PATCH: every key of updates that is an own property of
\* the record is assigned; gpa and age go through Number()
ApplyUpdates(student, updates) ==
    [key \in DOMAIN student |->
        IF key \in DOMAIN updates
        THEN IF key \in {"gpa", "age"}
             THEN ToNumber(updates[key])
             ELSE updates[key]
        ELSE student[key]]

\* the lookup and validation of PATCH /studentrecords/:id: 200 when the
\* update passes.  updates.name.trim() throws a TypeError when name is present
\* and not a string; the error middleware answers 500.
UpdateStatus(coll, id, updates) ==
    LET gpa == Prop(updates, "gpa")
        name == Prop(updates, "name")
    IN  CASE findStudentById(coll, id) = 0 -> 404
          [] gpa.t # "undefined" /\ ~isValidGpa(ToNumber(gpa)) -> 400
          [] name.t # "undefined" /\ name.t # "string" -> 500
          [] name.t # "undefined" /\ Trim(name.s) = <<>> -> 400
          [] OTHER -> 200

\* PATCH with the apply loop run before the validation of the payload
UpdateRecordApplyFirst(coll, nid, id, updates) ==
    LET i == findStudentById(coll, id)
    IN  IF i = 0
        THEN Outcome(404, coll, nid)
        ELSE Outcome(UpdateStatus(coll, id, updates),
                     [coll EXCEPT ![i] = ApplyUpdates(coll[i], updates)], nid)

\* PATCH /studentrecords/:id
UpdateRecord(coll, nid, id, updates) ==
    LET i == findStudentById(coll, id)
    IN  IF UpdateStatus(coll, id, updates) # 200
        THEN Outcome(UpdateStatus(coll, id, updates), coll, nid)
        ELSE Outcome(200, [coll EXCEPT ![i] = ApplyUpdates(coll[i], updates)], nid)

\* students.filter(s => s.id !== id)
WithoutId(coll, idNum) == SelectSeq(coll, LAMBDA st : ~StrictEq(st.id, idNum))

\* DELETE /studentrecords/:id
DeleteRecord(coll, nid, id) ==
    LET kept == WithoutId(coll, ParseInt(id))
    IN  IF Len(kept) = Len(coll)
        THEN Outcome(404, kept, nid)
        ELSE Outcome(204, kept, nid)

(***************************************************************************)
(* src/unnamed/part_000, lines 67-292: the indexNumber variant.  Its       *)
(* definitions carry the suffix V.                                         *)
(***************************************************************************)
\* typeof g === 'number', then g >= 0.0 && g <= 4.0
isValidGpaV(g) ==
    IF TypeOf(g) # "number" THEN FALSE
    ELSE ~IsNaN(g) /\ g.n >= 0 /\ g.n <= 400

\* /^[A-Za-z0-9]+$/.test(v): test() matches against String(v)
indexNumberRegex(v) ==
    LET str == ToStr(v)
    IN  /\ str # <<>>
        /\ \A i \in 1..Len(str) : str[i] \in Letters \/ IsDigit(str[i])

\* students.find(s => s.id === id), id a number: the position, 0 for none
findStudentByIdV(coll, idNum) ==
    LET hits == {i \in 1..Len(coll) : StrictEq(coll[i].id, idNum)}
    IN  IF hits = {} THEN 0 ELSE CHOOSE i \in hits : \A j \in hits : i <= j

\* students.find(s => s.indexNumber === indexNumber): the position, 0 for none
findStudentByIndex(coll, indexNumber) ==
    LET hits == {i \in 1..Len(coll) : StrictEq(coll[i].indexNumber, indexNumber)}
    IN  IF hits = {} THEN 0 ELSE CHOOSE i \in hits : \A j \in hits : i <= j

\* the record POST builds
NewStudentV(nid, body, today) ==
    LET major == Prop(body, "major")
        age == Prop(body, "age")
        enrollmentDate == Prop(body, "enrollmentDate")
    IN  [id |-> Whole(nid),
         indexNumber |-> Prop(body, "indexNumber"),
         name |-> Prop(body, "name"),
         major |-> IF Truthy(major) THEN major
                   ELSE Str(<<"U", "n", "d", "e", "c", "l", "a", "r", "e", "d">>),
         age |-> CASE TypeOf(age) = "number" -> age
                   [] Truthy(age) -> ToNumber(age)
                   [] OTHER -> Null,
         gpa |-> ToNumber(Prop(body, "gpa")),
         email |-> Prop(body, "email"),
         enrollmentDate |-> IF Truthy(enrollmentDate) THEN enrollmentDate
                            ELSE Str(today)]

\* POST /studentrecords
CreateRecordV(coll, nid, body, today) ==
    LET name == Prop(body, "name")
        email == Prop(body, "email")
        gpa == Prop(body, "gpa")
        indexNumber == Prop(body, "indexNumber")
        numericGpa == ToNumber(gpa)
    IN  CASE ~Truthy(name) \/ ~Truthy(email)
               \/ TypeOf(gpa) = "undefined" \/ ~Truthy(indexNumber) ->
               Outcome(400, coll, nid)
          [] ~indexNumberRegex(indexNumber) ->
               Outcome(400, coll, nid)
          [] findStudentByIndex(coll, indexNumber) # 0 ->
               Outcome(409, coll, nid)
          [] IsNaN(numericGpa) \/ ~isValidGpaV(numericGpa) ->
               Outcome(400, coll, nid)
          [] OTHER ->
               Outcome(201, Append(coll, NewStudentV(nid, body, today)), nid + 1)

\* const allowedFields = [...]
allowedFields ==
    {"name", "indexNumber", "major", "age", "gpa", "email", "enrollmentDate"}

\* the apply loop of PATCH, after updates.gpa = numericGpa
ApplyUpdatesV(student, updates) ==
    LET keys == DOMAIN updates \cap allowedFields
    IN  [key \in DOMAIN student \cup keys |->
            IF key \in keys
            THEN IF key = "gpa" THEN ToNumber(updates[key]) ELSE updates[key]
            ELSE student[key]]

\* PATCH /studentrecords/:id
UpdateRecordV(coll, nid, id, updates) ==
    LET idNum == ParseInt(id)
        i == findStudentByIdV(coll, idNum)
        indexNumber == Prop(updates, "indexNumber")
        other == findStudentByIndex(coll, indexNumber)
        gpa == Prop(updates, "gpa")
        numericGpa == ToNumber(gpa)
    IN  CASE IsNaN(idNum) ->
               Outcome(400, coll, nid)
          [] i = 0 ->
               Outcome(404, coll, nid)
          [] indexNumber.t # "undefined" /\ ~indexNumberRegex(indexNumber) ->
               Outcome(400, coll, nid)
          [] indexNumber.t # "undefined" /\ other # 0
               /\ ~StrictEq(coll[other].id, coll[i].id) ->
               Outcome(409, coll, nid)
          [] gpa.t # "undefined"
               /\ (IsNaN(numericGpa) \/ ~isValidGpaV(numericGpa)) ->
               Outcome(400, coll, nid)
          [] OTHER ->
               Outcome(200, [coll EXCEPT ![i] = ApplyUpdatesV(coll[i], updates)], nid)

\* students.splice(idx, 1)
Splice(coll, idx) == SubSeq(coll, 1, idx - 1) \o SubSeq(coll, idx + 1, Len(coll))

\* DELETE /studentrecords/:id
DeleteRecordV(coll, nid, id) ==
    LET idNum == ParseInt(id)
        idx == findStudentByIdV(coll, idNum)
    IN  CASE IsNaN(idNum) -> Outcome(400, coll, nid)
          [] idx = 0 -> Outcome(404, coll, nid)
          [] OTHER -> Outcome(200, Splice(coll, idx), nid)

(***************************************************************************)
(* src/index.js: the list query, GET /studentrecords.                      *)
(***************************************************************************)
LowerCase ==
    <<"a", "b", "c", "d", "e", "f", "g", "h", "i", "j", "k", "l", "m",
      "n", "o", "p", "q", "r", "s", "t", "u", "v", "w", "x", "y", "z">>

UpperCase ==
    <<"A", "B", "C", "D", "E", "F", "G", "H", "I", "J", "K", "L", "M",
      "N", "O", "P", "Q", "R", "S", "T", "U", "V", "W", "X", "Y", "Z">>

IsUpper(c) == \E i \in 1..26 : UpperCase[i] = c

\* String.prototype.toLowerCase
ToLowerCase(cs) ==
    [i \in 1..Len(cs) |->
        IF IsUpper(cs[i])
        THEN LowerCase[CHOOSE k \in 1..26 : UpperCase[k] = cs[i]]
        ELSE cs[i]]

\* String.prototype.includes
Includes(cs, q) ==
    \E i \in 0..(Len(cs) - Len(q)) : SubSeq(cs, i + 1, i + Len(q)) = q

\* parseFloat(cs): leading white space, an optional sign, then the longest
\* decimal numeral; NaN when there is none.  What follows the numeral is
\* ignored.
ParseFloat(cs) ==
    LET t == TrimStart(cs)
        neg == t # <<>> /\ Head(t) = "-"
        signed == t # <<>> /\ Head(t) \in {"-", "+"}
        u == IF signed THEN Tail(t) ELSE t
        ip == DigitPrefix(u)
        rest == SubSeq(u, Len(ip) + 1, Len(u))
        dotted == rest # <<>> /\ Head(rest) = "."
        fp == IF dotted THEN DigitPrefix(Tail(rest)) ELSE <<>>
        mag == 100 * DigitsValue(ip) + FractionValue(fp)
    IN  IF Len(ip) + Len(fp) = 0 THEN NaN
        ELSE Num(IF neg THEN 0 - mag ELSE mag)

\* the place of a character in the collation order of localeCompare: white
\* space, punctuation, digits, then the letters without regard to case
CollationRank(c) ==
    CASE c = " " -> 1
      [] c = "-" -> 2
      [] c = "." -> 3
      [] c = "@" -> 4
      [] IsDigit(c) -> 5 + DigitVal(c)
      [] IsUpper(c) -> 15 + (CHOOSE k \in 1..26 : UpperCase[k] = c)
      [] \E k \in 1..26 : LowerCase[k] = c ->
             15 + (CHOOSE k \in 1..26 : LowerCase[k] = c)
      [] OTHER -> 0

\* a.localeCompare(b) for the characters of the model: the first difference
\* of the collation ranks decides, a prefix sorts first; strings that differ
\* in case only are decided by the first such difference, lower case first
LocaleCompare(a, b) ==
    LET n == IF Len(a) < Len(b) THEN Len(a) ELSE Len(b)
        rankDiff == {i \in 1..n : CollationRank(a[i]) # CollationRank(b[i])}
        caseDiff == {i \in 1..n : a[i] # b[i]}
        First(S) == CHOOSE i \in S : \A j \in S : i <= j
    IN  CASE rankDiff # {} ->
               IF CollationRank(a[First(rankDiff)]) < CollationRank(b[First(rankDiff)])
               THEN 0 - 1 ELSE 1
          [] Len(a) < Len(b) -> 0 - 1
          [] Len(a) > Len(b) -> 1
          [] caseDiff # {} -> IF IsUpper(a[First(caseDiff)]) THEN 1 ELSE 0 - 1
          [] OTHER -> 0

\* x < y for numbers x and y: a comparison with NaN is false
LessThan(x, y) == x.t = "number" /\ y.t = "number" /\ x.n < y.n

\* a[sort]: the own property of a record that the characters of sort name;
\* "" names none
FieldName(cs) ==
    CASE cs = <<"i", "d">> -> "id"
      [] cs = <<"n", "a", "m", "e">> -> "name"
      [] cs = <<"m", "a", "j", "o", "r">> -> "major"
      [] cs = <<"a", "g", "e">> -> "age"
      [] cs = <<"g", "p", "a">> -> "gpa"
      [] cs = <<"e", "m", "a", "i", "l">> -> "email"
      [] cs = <<"e", "n", "r", "o", "l", "l", "m", "e", "n", "t", "D", "a", "t", "e">> -> "enrollmentDate"
      [] OTHER -> ""

\* (x < y ? -1 : x > y ? 1 : 0) for numbers x and y
NumberOrder(x, y) ==
    CASE LessThan(x, y) -> 0 - 1
      [] LessThan(y, x) -> 1
      [] OTHER -> 0

\* the comparator handed to results.sort; va < vb and va > vb, va no string,
\* compare the operands as numbers
Compare(a, b, sort, direction) ==
    LET va == Prop(a, FieldName(sort))
        vb == Prop(b, FieldName(sort))
    IN  CASE va.t = "undefined" \/ vb.t = "undefined" -> 0
          [] va.t = "string" -> LocaleCompare(va.s, ToStr(vb)) * direction
          [] OTHER -> NumberOrder(ToNumber(va), ToNumber(vb)) * direction

\* the comparator is a consistent comparator for the elements of results
\* (ECMAScript, Array.prototype.sort); cmp holds its value for every pair
ConsistentComparator(results, sort, direction) ==
    LET n == Len(results)
        cmp == {<<i, j, Compare(results[i], results[j], sort, direction)>> :
                   i \in 1..n, j \in 1..n}
        c(i, j) == CHOOSE v \in {0 - 1, 0, 1} : <<i, j, v>> \in cmp
    IN  \A x, y \in 1..n :
            /\ c(x, x) = 0
            /\ (c(x, y) < 0) = (c(y, x) > 0)
            /\ \A z \in 1..n :
                  /\ (c(x, y) = 0 /\ c(y, z) = 0) => c(x, z) = 0
                  /\ (c(x, y) < 0 /\ c(y, z) < 0) => c(x, z) < 0
                  /\ (c(x, y) > 0 /\ c(y, z) > 0) => c(x, z) > 0

\* x put into a sorted sequence, behind every element that is not greater
Insert(sorted, x, sort, direction) ==
    LET greater == {i \in 1..Len(sorted) : Compare(sorted[i], x, sort, direction) > 0}
        at == IF greater = {} THEN Len(sorted) + 1
              ELSE CHOOSE i \in greater : \A j \in greater : i <= j
    IN  SubSeq(sorted, 1, at - 1) \o <<x>> \o SubSeq(sorted, at, Len(sorted))

\* the stable sort of results
RECURSIVE StableSort(_, _, _)
StableSort(results, sort, direction) ==
    IF results = <<>> THEN <<>>
    ELSE Insert(StableSort(SubSeq(results, 1, Len(results) - 1), sort, direction),
                results[Len(results)], sort, direction)

\* what results.sort(comparator) may leave in results: the stable sort for
\* a consistent comparator; otherwise the order is implementation-defined,
\* and any arrangement of the elements may result
SortOutcomes(results, sort, direction) ==
    IF ConsistentComparator(results, sort, direction)
    THEN {StableSort(results, sort, direction)}
    ELSE {[i \in 1..Len(results) |-> results[p[i]]] :
             p \in Permutations(1..Len(results))}

\* if (minGpa !== undefined) ... results.filter(s => s.gpa >= m)
FilterMinGpa(results, minGpa) ==
    IF minGpa.t # "undefined" /\ ~IsNaN(ParseFloat(ToStr(minGpa)))
    THEN SelectSeq(results, LAMBDA st : ~LessThan(ToNumber(st.gpa), ParseFloat(ToStr(minGpa)))
                                         /\ ~IsNaN(ToNumber(st.gpa)))
    ELSE results

\* if (maxGpa !== undefined) ... results.filter(s => s.gpa <= M)
FilterMaxGpa(results, maxGpa) ==
    IF maxGpa.t # "undefined" /\ ~IsNaN(ParseFloat(ToStr(maxGpa)))
    THEN SelectSeq(results, LAMBDA st : ~LessThan(ParseFloat(ToStr(maxGpa)), ToNumber(st.gpa))
                                         /\ ~IsNaN(ToNumber(st.gpa)))
    ELSE results

\* s.name.toLowerCase() throws a TypeError when a record's name is no string
NameFilterThrows(results, name) ==
    Truthy(name) /\ \E i \in 1..Len(results) : results[i].name.t # "string"

\* if (name) ... results.filter(s => s.name.toLowerCase().includes(q))
FilterName(results, name) ==
    IF Truthy(name)
    THEN SelectSeq(results,
                   LAMBDA st : Includes(ToLowerCase(st.name.s), ToLowerCase(name.s)))
    ELSE results

\* the filter stage
Filtered(coll, query) ==
    FilterName(FilterMaxGpa(FilterMinGpa(coll, Prop(query, "minGpa")),
                            Prop(query, "maxGpa")),
               Prop(query, "name"))

\* (order && order.toLowerCase() === 'desc') ? -1 : 1
Direction(order) ==
    IF Truthy(order) /\ ToLowerCase(order.s) = <<"d", "e", "s", "c">>
    THEN 0 - 1 ELSE 1

\* Math.max(1, v), v a number: NaN for NaN
MathMax1(v) ==
    CASE IsNaN(v) -> NaN
      [] v.n < 100 -> Whole(1)
      [] OTHER -> v

\* Math.max(1, parseInt(limit || '10', 10))
EffectiveLimit(limit) ==
    MathMax1(ParseInt(IF Truthy(limit) THEN limit.s ELSE <<"1", "0">>))

\* Math.max(1, parseInt(page || '1', 10))
EffectivePage(page) ==
    MathMax1(ParseInt(IF Truthy(page) THEN page.s ELSE <<"1">>))

\* the slice with start = pg * lim: the window one page too far
PaginateFromPage(results, lim, pg) ==
    IF IsNaN(lim) \/ IsNaN(pg) THEN <<>>
    ELSE LET l == lim.n \div 100
             start == (pg.n \div 100) * l
             stop == IF start + l < Len(results) THEN start + l ELSE Len(results)
         IN  SubSeq(results, start + 1, stop)

\* results.slice((pg - 1) * lim, (pg - 1) * lim + lim): a NaN bound of slice
\* counts as 0
Paginate(results, lim, pg) ==
    IF IsNaN(lim) \/ IsNaN(pg) THEN <<>>
    ELSE LET l == lim.n \div 100
             start == ((pg.n \div 100) - 1) * l
             stop == IF start + l < Len(results) THEN start + l ELSE Len(results)
         IN  SubSeq(results, start + 1, stop)

\* the response of the list query for one outcome of the sort stage; results
\* is the handler's local results, before the slice
ListResponse(results, query) ==
    [status |-> 200,
     total |-> Len(results),
     page |-> EffectivePage(Prop(query, "page")),
     limit |-> EffectiveLimit(Prop(query, "limit")),
     data |-> Paginate(results, EffectiveLimit(Prop(query, "limit")),
                       EffectivePage(Prop(query, "page"))),
     results |-> results]

\* the list query with let results = students in place of the copy
\* [...students]: without a filter, sort() then sorts the collection itself
ListRecordsNoCopy(coll, nid, query) ==
    LET sort == Prop(query, "sort")
        sorted == IF Truthy(sort)
                  THEN SortOutcomes(Filtered(coll, query), sort.s,
                                    Direction(Prop(query, "order")))
                  ELSE {Filtered(coll, query)}
    IN  {[students |-> IF Truthy(sort) /\ Len(r) = Len(coll) THEN r ELSE coll,
          nextId |-> nid,
          response |-> ListResponse(r, query)] : r \in sorted}

\* GET /studentrecords: the store it leaves and the responses it may give
ListRecords(coll, nid, query) ==
    LET sort == Prop(query, "sort")
        gpaFiltered == FilterMaxGpa(FilterMinGpa(coll, Prop(query, "minGpa")),
                                    Prop(query, "maxGpa"))
        sorted == IF Truthy(sort)
                  THEN SortOutcomes(Filtered(coll, query), sort.s,
                                    Direction(Prop(query, "order")))
                  ELSE {Filtered(coll, query)}
    IN  IF NameFilterThrows(gpaFiltered, Prop(query, "name"))
        THEN {[students |-> coll, nextId |-> nid, response |-> [status |-> 500]]}
        ELSE {[students |-> coll, nextId |-> nid,
               response |-> ListResponse(r, query)] : r \in sorted}

(***************************************************************************)
(* The requests of the model.                                              *)
(***************************************************************************)
sZed == <<"Z", "e", "d">>
sZedMail == <<"z", "e", "d", "@", "e", "x", "a", "m", "p", "l", "e", ".", "c", "o", "m">>
sPhysics == <<"P", "h", "y", "s", "i", "c", "s">>
sBlank == <<" ", " ">>
sEmpty == <<>>
sNick == <<"Z">>
sDate == <<"2", "0", "2", "4", "-", "0", "2", "-", "2", "9">>
s3_5 == <<"3", ".", "5">>
s4_1 == <<"4", ".", "1">>
sAbc == <<"a", "b", "c">>
s17 == <<"1", "7">>
sUG1001 == <<"U", "G", "1", "0", "0", "1">>
sUG1002 == <<"U", "G", "1", "0", "0", "2">>
sUG2001 == <<"U", "G", "2", "0", "0", "1">>
sUGbad == <<"U", "G", " ", "2", "0", "0", "1">>

s3_2 == <<"3", ".", "2">>
s3_8 == <<"3", ".", "8">>
sA == <<"A">>
sSMITH == <<"S", "M", "I", "T", "H">>
sName == <<"n", "a", "m", "e">>
sGpa == <<"g", "p", "a">>
sAge == <<"a", "g", "e">>
sNickname == <<"n", "i", "c", "k", "n", "a", "m", "e">>
sDesc == <<"d", "e", "s", "c">>
sDESC == <<"D", "E", "S", "C">>
s2 == <<"2">>
s0 == <<"0">>
s10 == <<"1", "0">>
sMinus1 == <<"-", "1">>

\* an object with no key
NoBody == [k \in {} |-> Undef]

\* the :id path parameters: two seed ids, the first id a create allocates,
\* and text that is no numeral
IdParams == {<<"1", "0", "1">>, <<"1", "0", "2">>, <<"1", "0", "6">>, sAbc}

\* the dates new Date() may give
Dates == {<<"2", "0", "2", "5", "-", "0", "1", "-", "0", "1">>,
          <<"2", "0", "2", "5", "-", "0", "1", "-", "0", "2">>}

\* gpa as a client may send it: numbers in and out of range, numeric and
\* non-numeric strings, null
GpaInputs ==
    {Num(0 - 10), Whole(0), Num(350), Whole(4), Num(410),
     Str(s3_5), Str(s4_1), Str(sAbc), Null}

Who == [name |-> Str(sZed), email |-> Str(sZedMail)]

\* POST bodies for src/index.js
PostBodies ==
    {Who @@ [gpa |-> g] : g \in GpaInputs}
    \cup {Who,
          [email |-> Str(sZedMail), gpa |-> Num(350)],
          [name |-> Str(sZed), email |-> Str(sEmpty), gpa |-> Num(350)],
          [name |-> Whole(5), email |-> Str(sZedMail), gpa |-> Num(350)],
          Who @@ [gpa |-> Whole(4), age |-> Whole(15)],
          Who @@ [gpa |-> Num(350), age |-> Str(s17)],
          Who @@ [gpa |-> Num(350), age |-> Whole(17), major |-> Str(sPhysics),
                  enrollmentDate |-> Str(sDate)]}

\* PATCH bodies for src/index.js
PatchBodies ==
    {[gpa |-> g] : g \in GpaInputs}
    \cup {NoBody,
          [major |-> Str(sPhysics)],
          [gpa |-> Num(410), major |-> Str(sPhysics)],
          [name |-> Str(sBlank), major |-> Str(sPhysics)],
          [name |-> Str(sEmpty)],
          [name |-> Whole(5), major |-> Str(sPhysics)],
          [name |-> SeedStudents[2].name],
          [id |-> Whole(102)],
          [id |-> Whole(106)],
          [email |-> Str(sEmpty)],
          [age |-> Str(sAbc)],
          [age |-> Whole(10)],
          [age |-> Null],
          [nickname |-> Str(sNick)]}

\* indexNumber as a client may send it: the indexNumber of a seed record, a
\* fresh one, one with a space, a one-element array, null
IndexInputs == {Str(sUG1001), Str(sUG2001), Str(sUGbad), Arr(sUG2001), Null}

\* POST bodies for the indexNumber variant
PostBodiesV ==
    {Who @@ [indexNumber |-> x, gpa |-> g] :
        x \in IndexInputs, g \in {Num(350), Num(410), Null}}
    \cup {Who @@ [gpa |-> Num(350)],
          Who @@ [indexNumber |-> Str(sUG2001)],
          [email |-> Str(sZedMail), gpa |-> Num(350), indexNumber |-> Str(sUG1001)],
          Who @@ [indexNumber |-> Str(sUG2001), gpa |-> Str(s3_5), age |-> Str(s17)]}

\* PATCH bodies for the indexNumber variant
PatchBodiesV ==
    {[indexNumber |-> x] : x \in IndexInputs \cup {Str(sUG1002)}}
    \cup {[gpa |-> g] : g \in GpaInputs}
    \cup {NoBody,
          [indexNumber |-> Str(sUG2001), gpa |-> Num(410)],
          [indexNumber |-> Str(sUG1002), gpa |-> Num(350)],
          [indexNumber |-> Str(sUGbad), major |-> Str(sPhysics)],
          [major |-> Str(sPhysics)],
          [id |-> Whole(102)],
          [nickname |-> Str(sNick)]}

\* the query strings of GET /studentrecords: filters, sorts and pages
Queries ==
    {NoBody,
     [minGpa |-> Str(s3_5)],
     [maxGpa |-> Str(s3_5)],
     [minGpa |-> Str(sAbc)],
     [minGpa |-> Str(s3_2), maxGpa |-> Str(s3_8), name |-> Str(sA)],
     [name |-> Str(sSMITH)],
     [maxGpa |-> Str(sAbc), name |-> Str(sEmpty)],
     [sort |-> Str(sName)],
     [sort |-> Str(sName), order |-> Str(sDesc)],
     [sort |-> Str(sGpa)],
     [sort |-> Str(sGpa), order |-> Str(sDESC)],
     [sort |-> Str(sAge)],
     [sort |-> Str(sAge), order |-> Str(sDesc)],
     [sort |-> Str(sNickname)],
     [minGpa |-> Str(s3_2), sort |-> Str(sName), order |-> Str(sDesc)],
     [limit |-> Str(s2), page |-> Str(s2)],
     [limit |-> Str(s2), page |-> Str(s10)],
     [limit |-> Str(s2)],
     [limit |-> Str(sAbc)],
     [page |-> Str(sAbc)],
     [limit |-> Str(s0), page |-> Str(sMinus1)],
     [limit |-> Str(sEmpty), page |-> Str(sEmpty)],
     [sort |-> Str(sGpa), limit |-> Str(s2), page |-> Str(s2)]}

(***************************************************************************)
(* The state machine.  req is the request last handled, res the response   *)
(* to it, steps the number of requests handled.                            *)
(***************************************************************************)
Request(m, id, body) == [method |-> m, id |-> id, body |-> body]

Init ==
    /\ prog \in {"index.js", "part_000"}
    /\ students = IF prog = "index.js" THEN SeedStudents ELSE SeedStudentsV
    /\ nextId = IF prog = "index.js" THEN SeedNextId ELSE SeedNextIdV
    /\ req = Request("", <<>>, NoBody)
    /\ res = [status |-> 0]
    /\ steps = 0

\* the handler's outcome o answers the request r
Handle(r, o) ==
    /\ steps < MaxSteps
    /\ students' = o.students
    /\ nextId' = o.nextId
    /\ req' = r
    /\ res' = [status |-> o.status]
    /\ steps' = steps + 1
    /\ UNCHANGED prog

Get ==
    /\ prog = "index.js"
    /\ \E id \in IdParams :
          Handle(Request("GET", id, NoBody), GetRecord(students, nextId, id))

Post ==
    /\ prog = "index.js"
    /\ \E body \in PostBodies, today \in Dates :
          Handle(Request("POST", <<>>, body),
                 CreateRecord(students, nextId, body, today))

Patch ==
    /\ prog = "index.js"
    /\ \E id \in IdParams, body \in PatchBodies :
          Handle(Request("PATCH", id, body),
                 UpdateRecord(students, nextId, id, body))

Delete ==
    /\ prog = "index.js"
    /\ \E id \in IdParams :
          Handle(Request("DELETE", id, NoBody),
                 DeleteRecord(students, nextId, id))

PostV ==
    /\ prog = "part_000"
    /\ \E body \in PostBodiesV, today \in Dates :
          Handle(Request("POST", <<>>, body),
                 CreateRecordV(students, nextId, body, today))

PatchV ==
    /\ prog = "part_000"
    /\ \E id \in IdParams, body \in PatchBodiesV :
          Handle(Request("PATCH", id, body),
                 UpdateRecordV(students, nextId, id, body))

DeleteV ==
    /\ prog = "part_000"
    /\ \E id \in IdParams :
          Handle(Request("DELETE", id, NoBody),
                 DeleteRecordV(students, nextId, id))

\* GET /studentrecords; the request carries the query string as its body
List ==
    /\ prog = "index.js"
    /\ steps < MaxSteps
    /\ \E query \in Queries :
          \E o \in ListRecords(students, nextId, query) :
              /\ students' = o.students
              /\ nextId' = o.nextId
              /\ req' = Request("GET", <<>>, query)
              /\ res' = o.response
              /\ steps' = steps + 1
              /\ UNCHANGED prog

Next == Get \/ Post \/ Patch \/ Delete \/ PostV \/ PatchV \/ DeleteV

Spec == Init /\ [][Next]_vars

\* src/index.js alone, with its list query
InitList == Init /\ prog = "index.js"

NextList == List \/ Get \/ Post \/ Patch \/ Delete

SpecList == InitList /\ [][NextList]_vars

(***************************************************************************)
(* The claims.                                                             *)
(***************************************************************************)
IsIndex == prog = "index.js"

IsVariant == prog = "part_000"

\* some record of coll has the id the path parameter id parses to
HasId(coll, id) == \E i \in 1..Len(coll) : StrictEq(coll[i].id, ParseInt(id))

\* C1: in src/index.js no two records of the collection have the same id,
\* after any sequence of create, update and delete requests.
C1_IdUnique ==
    IsIndex =>
        \A i, j \in 1..Len(students) :
            i # j => students[i].id # students[j].id

\* C2: in src/index.js an update never changes the id of a record, whatever
\* the payload (a payload with an id key included).
C2_IdImmutable ==
    [][IsIndex /\ req'.method = "PATCH" =>
          /\ Len(students') = Len(students)
          /\ \A i \in 1..Len(students) : students'[i].id = students[i].id]_vars

\* C3: in src/index.js every record of the collection has a numeric gpa with
\* 0.0 <= gpa <= 4.0 in every reachable state.
C3_GpaInRange ==
    IsIndex =>
        \A i \in 1..Len(students) :
            /\ students[i].gpa.t = "number"
            /\ students[i].gpa.n >= 0
            /\ students[i].gpa.n <= 400

\* C3's case: an update whose gpa is a string or null has been applied
C3_Witness ==
    /\ IsIndex
    /\ req.method = "PATCH"
    /\ res.status = 200
    /\ Prop(req.body, "gpa").t \in {"string", "null"}

\* C4: in the indexNumber variant no two records of the collection have the
\* same indexNumber, after any sequence of create, update and delete
\* requests.
C4_IndexNumberUnique ==
    IsVariant =>
        \A i, j \in 1..Len(students) :
            i # j => students[i].indexNumber # students[j].indexNumber

\* C5: in src/index.js a successful update changes nothing but the fields
\* the payload names, of the record the request addresses: the other fields
\* of that record, the other records, the order of the collection and nextId
\* are unchanged.
C5_UpdateFrame ==
    [][IsIndex /\ req'.method = "PATCH" /\ res'.status = 200 =>
          /\ nextId' = nextId
          /\ Len(students') = Len(students)
          /\ \A i \in 1..Len(students) :
                /\ DOMAIN students'[i] = DOMAIN students[i]
                /\ \A key \in DOMAIN students[i] \ DOMAIN req'.body :
                      students'[i][key] = students[i][key]
                /\ students'[i] # students[i] =>
                      /\ StrictEq(students[i].id, ParseInt(req'.id))
                      /\ \A j \in 1..Len(students) :
                            j # i => students'[j] = students[j]]_vars

\* C5's case: an update whose payload holds major alone has been applied
C5_Witness ==
    /\ IsIndex
    /\ req.method = "PATCH"
    /\ res.status = 200
    /\ DOMAIN req.body = {"major"}
    /\ \E i \in 1..Len(students) :
          /\ StrictEq(students[i].id, ParseInt(req.id))
          /\ students[i].major = req.body.major
          /\ students[i].major # SeedStudents[i].major
          /\ students[i].name = SeedStudents[i].name

\* C6: in src/index.js the delete of an id no record has answers 404 and
\* leaves the collection unchanged; the delete of an id some record has
\* removes exactly one record, and a getById of that id then answers 404.
C6_DeleteExactlyOne ==
    [][IsIndex /\ req'.method = "DELETE" =>
          IF HasId(students, req'.id)
          THEN /\ Len(students') = Len(students) - 1
               /\ GetRecord(students', nextId', req'.id).status = 404
          ELSE /\ res'.status = 404
               /\ students' = students]_vars

\* C7, as stated: in src/index.js a create with name and email present
\* answers 400 when gpa is below 0.0 or above 4.0, and succeeds when gpa is
\* exactly 0.0 or exactly 4.0.
C7_AsStated ==
    LET gpa == Prop(req.body, "gpa")
    IN  IsIndex /\ req.method = "POST" /\ gpa.t = "number"
        /\ Truthy(Prop(req.body, "name")) /\ Truthy(Prop(req.body, "email")) =>
            /\ (gpa.n < 0 \/ gpa.n > 400) => res.status = 400
            /\ gpa.n \in {0, 400} => res.status = 201

\* the age of a create body passes the age check: absent, null, or a number
\* that is at least 16
AgeAcceptable(body) ==
    LET age == Prop(body, "age")
    IN  \/ age.t \in {"undefined", "null"}
        \/ age.t = "number" /\ age.n >= 1600

\* C7, amended: in src/index.js a create with name and email present answers
\* 400 when gpa is below 0.0 or above 4.0, and succeeds when gpa is exactly
\* 0.0 or exactly 4.0 and age is absent, null or a number that is at least 16.
C7_GpaBoundaries ==
    LET gpa == Prop(req.body, "gpa")
    IN  IsIndex /\ req.method = "POST" /\ gpa.t = "number"
        /\ Truthy(Prop(req.body, "name")) /\ Truthy(Prop(req.body, "email")) =>
            /\ (gpa.n < 0 \/ gpa.n > 400) => res.status = 400
            /\ (gpa.n \in {0, 400} /\ AgeAcceptable(req.body)) => res.status = 201

\* C7's case: a create with gpa 0.0 has succeeded and stored gpa 0.0
C7_Witness ==
    /\ IsIndex
    /\ req.method = "POST"
    /\ Prop(req.body, "gpa") = Whole(0)
    /\ res.status = 201
    /\ students[Len(students)].gpa = Whole(0)

\* the body of a create names every field the variant requires
RequiredPresentV(body) ==
    /\ Truthy(Prop(body, "name"))
    /\ Truthy(Prop(body, "email"))
    /\ Prop(body, "gpa").t # "undefined"
    /\ Truthy(Prop(body, "indexNumber"))

\* C8: in the indexNumber variant a create (with its required fields) whose
\* indexNumber is that of an existing record answers 409, and an update that
\* sets a record's indexNumber to that of a different existing record
\* answers 409; both leave the collection and nextId unchanged.
C8_ConflictOnDuplicate ==
    [][/\ IsVariant
       /\ \/ /\ req'.method = "POST"
             /\ RequiredPresentV(req'.body)
             /\ \E i \in 1..Len(students) :
                   students[i].indexNumber = req'.body.indexNumber
          \/ /\ req'.method = "PATCH"
             /\ "indexNumber" \in DOMAIN req'.body
             /\ \E i, j \in 1..Len(students) :
                   /\ StrictEq(students[i].id, ParseInt(req'.id))
                   /\ j # i
                   /\ students[j].indexNumber = req'.body.indexNumber
       => /\ res'.status = 409
          /\ students' = students
          /\ nextId' = nextId]_vars

\* C9: in src/index.js a create that fails leaves nextId and the collection
\* unchanged; a create that succeeds appends exactly one record, whose id is
\* the previous nextId, and increases nextId by exactly 1.
C9_CounterOnlyOnSuccess ==
    [][IsIndex /\ req'.method = "POST" =>
          IF res'.status = 201
          THEN /\ nextId' = nextId + 1
               /\ Len(students') = Len(students) + 1
               /\ SubSeq(students', 1, Len(students)) = students
               /\ students'[Len(students')].id = Whole(nextId)
          ELSE /\ nextId' = nextId
               /\ students' = students]_vars

\* C9's case: a create has failed after a create that succeeded
C9_Witness ==
    /\ IsIndex
    /\ req.method = "POST"
    /\ res.status = 400
    /\ nextId = SeedNextId + 1
    /\ Len(students) = Len(SeedStudents) + 1

\* C10: in src/index.js and in the indexNumber variant an update that answers
\* an error leaves every record and nextId unchanged, also when the payload
\* holds other fields that are valid.
C10_FailedUpdateChangesNothing ==
    [][req'.method = "PATCH" /\ res'.status # 200 =>
          /\ students' = students
          /\ nextId' = nextId]_vars

\* C10's case: an update naming a valid major and an invalid gpa or name has
\* been refused, and the record it addresses exists
C10_Witness ==
    /\ req.method = "PATCH"
    /\ res.status = 400
    /\ HasId(students, req.id)
    /\ "major" \in DOMAIN req.body
    /\ Cardinality(DOMAIN req.body) = 2

\* C11: in src/index.js every record's age is null or a number that is at
\* least 16, in every reachable state.
C11_AgeValid ==
    IsIndex =>
        \A i \in 1..Len(students) :
            \/ students[i].age.t = "null"
            \/ students[i].age.t = "number" /\ students[i].age.n >= 1600

\* C12: in src/index.js every record of the collection has a non-empty name
\* and a non-empty email, whatever name and email the update payloads carry.
C12_RequiredFieldsKept ==
    IsIndex =>
        \A i \in 1..Len(students) :
            Truthy(students[i].name) /\ Truthy(students[i].email)

\* the request last handled is a list query, GET /studentrecords
IsList == req.method = "GET" /\ req.id = <<>>

\* C13: the list query of src/index.js never changes the store: whatever
\* filter, sort, order, limit and page it carries, the collection (records,
\* field values, order) and nextId are the same after it as before it.
C13_ListNeverMutates ==
    [][req'.method = "GET" /\ req'.id = <<>> =>
          /\ students' = students
          /\ nextId' = nextId]_vars

\* C13's case: a list query has been answered with every record of the
\* collection, sorted into an order that is not the collection's
C13_Witness ==
    /\ IsList
    /\ Truthy(Prop(req.body, "sort"))
    /\ res.status = 200
    /\ Len(res.results) = Len(students)
    /\ res.results # students

\* v is the text of an integer that is at least 1
IsPositiveNumeral(v) ==
    /\ v.t = "string"
    /\ v.s # <<>>
    /\ \A i \in 1..Len(v.s) : IsDigit(v.s[i])
    /\ DigitsValue(v.s) >= 1

\* C14: in the list query of src/index.js, for integers limit >= 1 and
\* page >= 1, data is exactly the elements of the filtered and sorted
\* sequence at the zero-based offsets (page-1)*limit up to, not including,
\* (page-1)*limit + limit that the sequence has; total is the length of that
\* sequence; a page beyond the end gives an empty data, the same total and
\* no error.
C14_PaginationWindow ==
    (/\ IsList
     /\ IsPositiveNumeral(Prop(req.body, "limit"))
     /\ IsPositiveNumeral(Prop(req.body, "page"))) =>
        LET limit == DigitsValue(req.body.limit.s)
            first == (DigitsValue(req.body.page.s) - 1) * limit
            offsets == {k \in first..(first + limit - 1) : k < res.total}
        IN  /\ res.status = 200
            /\ res.total = Len(res.results)
            /\ Len(res.data) = Cardinality(offsets)
            /\ \A k \in offsets : res.data[k - first + 1] = res.results[k + 1]
            /\ first >= res.total => res.data = <<>>

\* C14's case: the second page of two has been answered out of at least
\* five results
C14_Witness ==
    /\ IsList
    /\ IsPositiveNumeral(Prop(req.body, "limit"))
    /\ IsPositiveNumeral(Prop(req.body, "page"))
    /\ DigitsValue(req.body.limit.s) = 2
    /\ DigitsValue(req.body.page.s) = 2
    /\ res.total >= 5
    /\ res.data = SubSeq(res.results, 3, 4)

\* v is a limit or page parameter that is missing or holds no digit
MissingOrNonNumeric(v) ==
    \/ v.t = "undefined"
    \/ v.t = "string" /\ \A i \in 1..Len(v.s) : ~IsDigit(v.s[i])

\* v is a number that is an integer and at least 1
IsIntegerAtLeastOne(v) == v.t = "number" /\ v.n >= 100 /\ v.n % 100 = 0

\* C15: in the list query of src/index.js, for every limit and page input
\* (missing, empty, non-numeric text, zero, negative, positive integer) the
\* limit and page of the response are integers >= 1; a missing or non-numeric
\* limit gives limit = 10, a missing or non-numeric page gives page = 1.
C15_LimitAndPageClamped ==
    IsList /\ res.status = 200 =>
        /\ IsIntegerAtLeastOne(res.limit)
        /\ IsIntegerAtLeastOne(res.page)
        /\ MissingOrNonNumeric(Prop(req.body, "limit")) => res.limit = Whole(10)
        /\ MissingOrNonNumeric(Prop(req.body, "page")) => res.page = Whole(1)

\* record st satisfies every active predicate of the query: gpa >= minGpa,
\* gpa <= maxGpa (a bound that is no number is not active), name contains
\* the query's name without regard to case
SatisfiesQuery(st, query) ==
    LET minGpa == Prop(query, "minGpa")
        maxGpa == Prop(query, "maxGpa")
        name == Prop(query, "name")
    IN  /\ (minGpa.t = "string" /\ ~IsNaN(ParseFloat(minGpa.s))) =>
               st.gpa.n >= ParseFloat(minGpa.s).n
        /\ (maxGpa.t = "string" /\ ~IsNaN(ParseFloat(maxGpa.s))) =>
               st.gpa.n <= ParseFloat(maxGpa.s).n
        /\ Truthy(name) =>
               /\ st.name.t = "string"
               /\ Includes(ToLowerCase(st.name.s), ToLowerCase(name.s))

\* C16: in the list query of src/index.js, with no sort, the result is
\* exactly the records of the collection that satisfy every active predicate
\* (gpa >= minGpa, gpa <= maxGpa, name contains the query without regard to
\* case), in insertion order, and total is their count, in whatever order the
\* predicates are applied; a non-numeric minGpa or maxGpa is ignored; on the
\* seed set minGpa=3.5 returns exactly the records with gpa 3.8, 3.95, 3.5.
C16_FilterExact ==
    IsList /\ ~Truthy(Prop(req.body, "sort")) =>
        /\ res.status = 200
        /\ res.results = SelectSeq(students, LAMBDA st : SatisfiesQuery(st, req.body))
        /\ res.total = Len(res.results)
        /\ (students = SeedStudents /\ req.body = [minGpa |-> Str(s3_5)]) =>
               [i \in 1..Len(res.results) |-> res.results[i].gpa] =
                   <<Num(380), Num(395), Num(350)>>

\* the value of the field that the request sorts by, in record st
SortKey(st) == Prop(st, FieldName(req.body.sort.s))

\* value va is not above value vb: text in the order of localeCompare,
\* numbers in numeric order; NaN, and a text beside a number, are in no order
KeyLeq(va, vb) ==
    CASE va.t = "string" /\ vb.t = "string" -> LocaleCompare(va.s, vb.s) <= 0
      [] va.t = "number" /\ vb.t = "number" -> va.n <= vb.n
      [] OTHER -> FALSE

\* C17: in the list query of src/index.js, when sort names a field that
\* every filtered record has, the sorted sequence is a permutation of the
\* filtered sequence, non-decreasing in that field (non-increasing for
\* order=desc), and records with equal values of the field keep the relative
\* order they have after the filter stage.
C17_SortedStable ==
    LET filtered == SelectSeq(students, LAMBDA st : SatisfiesQuery(st, req.body))
        has(st) == SortKey(st).t \notin {"undefined", "null"}
        desc == /\ Prop(req.body, "order").t = "string"
                /\ ToLowerCase(req.body.order.s) = sDesc
        n == Len(res.results)
        keys == {SortKey(filtered[i]) : i \in 1..Len(filtered)}
    IN  (/\ IsList
         /\ res.status = 200
         /\ Truthy(Prop(req.body, "sort"))
         /\ \A i \in 1..Len(filtered) : has(filtered[i])) =>
            /\ n = Len(filtered)
            /\ \A i \in 1..n :
                  Cardinality({j \in 1..n : res.results[j] = filtered[i]})
                      = Cardinality({j \in 1..n : filtered[j] = filtered[i]})
            /\ \A i, j \in 1..n :
                  i < j => IF desc
                           THEN KeyLeq(SortKey(res.results[j]), SortKey(res.results[i]))
                           ELSE KeyLeq(SortKey(res.results[i]), SortKey(res.results[j]))
            /\ \A k \in keys :
                  SelectSeq(res.results, LAMBDA st : SortKey(st) = k)
                      = SelectSeq(filtered, LAMBDA st : SortKey(st) = k)

\* C18: in src/index.js a getById whose id parameter does not parse to an
\* integer answers a bad request (400), not the 404 of a well-formed id that
\* no record has.
C18_GetByIdInvalidArgument ==
    IsIndex /\ req.method = "GET" /\ req.id # <<>> /\ IsNaN(ParseInt(req.id)) =>
        res.status = 400

\* the elements of seq at the positions K, in the order of seq
KeptAt(seq, K) ==
    LET idx == SelectSeq([i \in 1..Len(seq) |-> i], LAMBDA i : i \in K)
    IN  [j \in 1..Len(idx) |-> seq[idx[j]]]

\* C19: in src/index.js the collection is always in insertion order: a
\* create that succeeds puts the new record last, a delete keeps the
\* relative order of the records that remain, and an update or a list query
\* (also one that sorts its result) never reorders the collection.
C19_InsertionOrder ==
    [][IsIndex =>
          CASE req'.method = "POST" /\ res'.status = 201 ->
                   /\ Len(students') = Len(students) + 1
                   /\ SubSeq(students', 1, Len(students)) = students
            [] req'.method = "DELETE" ->
                   \E K \in SUBSET (1..Len(students)) : students' = KeptAt(students, K)
            [] req'.method = "PATCH" ->
                   /\ Len(students') = Len(students)
                   /\ Cardinality({i \in 1..Len(students) :
                                     students'[i] # students[i]}) <= 1
            [] OTHER -> students' = students]_vars

\* C19's case: after a create and the delete of the first record, the
\* created record is last and the seed records that remain are in their order
C19_Witness ==
    /\ IsIndex
    /\ req.method = "DELETE"
    /\ res.status = 204
    /\ Len(students) = Len(SeedStudents)
    /\ students[Len(students)].id = Whole(SeedNextId)
    /\ SubSeq(students, 1, Len(students) - 1) = Tail(SeedStudents)

\* C20: in src/index.js nextId is strictly greater than the id of every
\* record of the collection, and nextId never decreases.
C20_NextIdAboveIds ==
    IsIndex =>
        /\ nextId >= SeedNextId
        /\ \A i \in 1..Len(students) :
              students[i].id.t = "number" /\ students[i].id.n < nextId * 100

====
